---------------------------- MODULE Spec2Model ----------------------------
(***************************************************************************)
(* Model of the HappyHearts booking assistant (src/app/page.tsx): the      *)
(* slot-filling dialogue engine handleAssistantTurn with its extractor     *)
(* extractBookingDetails, and the form handler handleSubmit that feeds it. *)
(*                                                                         *)
(* Utterances are TLA+ strings over ASCII; the regular expressions of the  *)
(* source are written out as scanning operators over the characters.       *)
(* An optional field of BookingState is <<>> when undefined and <<v>> when *)
(* it holds the value v.                                                   *)
(***************************************************************************)
EXTENDS Integers, Sequences, FiniteSets, TLC

VARIABLES
  bookingState,          \* the BookingState the page holds
  lastAssistantMessage,  \* the text of the last assistant message shown
  turn,                  \* the last call of handleAssistantTurn: its arguments,
                         \* the responses it returned and the return it took
  confirmations          \* how many turns so far returned the confirmation

vars == <<bookingState, lastAssistantMessage, turn, confirmations>>

-----------------------------------------------------------------------------
(* Characters and strings                                                  *)

Ch(s, i) == IF i >= 1 /\ i <= Len(s) THEN SubSeq(s, i, i) ELSE ""

LowerLetters == "abcdefghijklmnopqrstuvwxyz"
UpperLetters == "ABCDEFGHIJKLMNOPQRSTUVWXYZ"
DigitChars == "0123456789"

CharsOf(s) == {SubSeq(s, i, i) : i \in 1..Len(s)}

LowerSet == CharsOf(LowerLetters)
UpperSet == CharsOf(UpperLetters)
DigitSet == CharsOf(DigitChars)

LetterSet == LowerSet \cup UpperSet
\* \s of the regular expressions, restricted to ASCII
SpaceSet == {" ", "\t", "\n", "\r", "\f"}
\* \w of the regular expressions
WordSet == LetterSet \cup DigitSet \cup {"_"}

IsLower(c) == c \in LowerSet
IsUpper(c) == c \in UpperSet
IsLetter(c) == c \in LetterSet
IsDigit(c) == c \in DigitSet
IsWord(c) == c \in WordSet

IndexIn(alphabet, c) == CHOOSE i \in 1..Len(alphabet) : SubSeq(alphabet, i, i) = c

LowerCh(c) == IF IsUpper(c) THEN Ch(LowerLetters, IndexIn(UpperLetters, c)) ELSE c
UpperCh(c) == IF IsLower(c) THEN Ch(UpperLetters, IndexIn(LowerLetters, c)) ELSE c

RECURSIVE toLowerCase(_)
toLowerCase(s) ==
  IF Len(s) = 0 THEN "" ELSE LowerCh(Ch(s, 1)) \o toLowerCase(SubSeq(s, 2, Len(s)))

RECURSIVE toUpperCase(_)
toUpperCase(s) ==
  IF Len(s) = 0 THEN "" ELSE UpperCh(Ch(s, 1)) \o toUpperCase(SubSeq(s, 2, Len(s)))

\* String.prototype.includes
Includes(s, kw) ==
  \E i \in 1..(Len(s) - Len(kw) + 1) : SubSeq(s, i, i + Len(kw) - 1) = kw

\* kw occurs in s at position i
At(s, i, kw) == i >= 1 /\ i + Len(kw) - 1 <= Len(s) /\ SubSeq(s, i, i + Len(kw) - 1) = kw

\* length of the longest run of characters of the class that starts at i
RECURSIVE Run(_, _, _)
Run(class, s, i) ==
  IF i <= Len(s) /\ Ch(s, i) \in class THEN 1 + Run(class, s, i + 1) ELSE 0

\* length of the longest run of characters outside the class that starts at i
RECURSIVE RunNot(_, _, _)
RunNot(class, s, i) ==
  IF i <= Len(s) /\ Ch(s, i) \notin class THEN 1 + RunNot(class, s, i + 1) ELSE 0

\* length of the longest run of characters of the class that ends at i
RECURSIVE RunBack(_, _, _)
RunBack(class, s, i) ==
  IF i >= 1 /\ Ch(s, i) \in class THEN 1 + RunBack(class, s, i - 1) ELSE 0

\* String.prototype.trim
trim(s) ==
  LET a == Run(SpaceSet, s, 1)
      b == RunBack(SpaceSet, s, Len(s))
  IN IF a = Len(s) THEN "" ELSE SubSeq(s, a + 1, Len(s) - b)

\* the word boundary \b between positions i-1 and i
Boundary(s, i) == IsWord(Ch(s, i - 1)) # IsWord(Ch(s, i))

\* the least position whose entry in the sequence hits differs from miss, or
\* 0: where a regular expression search (String.prototype.match without the
\* g flag) finds its match, hits[i] being the match attempted at position i
RECURSIVE FirstHitFrom(_, _, _)
FirstHitFrom(hits, miss, i) ==
  IF i > Len(hits) THEN 0
  ELSE IF hits[i] # miss THEN i
  ELSE FirstHitFrom(hits, miss, i + 1)

FirstHit(hits, miss) == FirstHitFrom(hits, miss, 1)

\* the first element of the sequence q, or the value none when it is empty
FirstOr(q, none) == IF Len(q) > 0 THEN q[1] ELSE none

\* match(...)?.[0] of a search: ends[i] is where the match attempted at
\* position i ends (exclusive), or 0 when there is none
MatchText(s, ends) ==
  LET i0 == FirstHit(ends, 0)
  IN IF i0 = 0 THEN <<>> ELSE <<SubSeq(s, i0, ends[i0] - 1)>>

\* the concatenation of the sequences qq[1], qq[2], ...: the alternatives a
\* backtracking match goes through, in order
RECURSIVE Flat(_)
Flat(qq) == IF Len(qq) = 0 THEN <<>> ELSE qq[1] \o Flat(Tail(qq))

RECURSIVE Join(_, _)
Join(parts, sep) ==
  IF Len(parts) = 0 THEN ""
  ELSE IF Len(parts) = 1 THEN parts[1]
  ELSE parts[1] \o sep \o Join(Tail(parts), sep)

-----------------------------------------------------------------------------
(* Optional fields                                                         *)

Undefined == <<>>
Some(v) == <<v>>
Val(o) == o[1]


\* JavaScript truthiness of an optional string / number field
TruthyStr(o) == o # Undefined /\ Val(o) # ""
TruthyNum(o) == o # Undefined /\ Val(o) # 0

-----------------------------------------------------------------------------
(* extractBookingDetails: name                                             *)

NameIntros == <<"name is", "this is", "i am", "i'm">>

\* [a-z\s] under the i flag
NameChSet == LetterSet \cup SpaceSet

\* message.match(/(?:name is|this is|i am|i'm)\s+([a-z\s]+)/i)?.[1]
nameIntroMatch(message) ==
  LET low == toLowerCase(message)
      IntroLenAt(i) ==
        Len(FirstOr(SelectSeq(NameIntros, LAMBDA w : At(low, i, w)), ""))
      \* <<from, to>> of the captured group of a match that starts at i
      GroupAt(i) ==
        LET p == IntroLenAt(i)
            j == i + p
            k == Run(SpaceSet, message, j)
            m == j + k
            r == Run(NameChSet, message, m)
        IN IF p = 0 \/ k = 0 THEN <<>>
           ELSE IF r > 0 THEN <<m, m + r - 1>>
           \* \s+ gives back one space, which is all the group gets
           ELSE IF k >= 2 THEN <<m - 1, m - 1>>
           ELSE <<>>
      group == FirstOr(SelectSeq([i \in 1..Len(message) |-> GroupAt(i)],
                                 LAMBDA g : g # <<>>),
                       <<>>)
  IN IF group = <<>> THEN Undefined ELSE Some(SubSeq(message, group[1], group[2]))

\* message.match(/^[a-z][a-z\s]{1,30}$/i)?.[0]
bareNameMatch(message) ==
  IF /\ Len(message) >= 2
     /\ Len(message) <= 31
     /\ IsLetter(Ch(message, 1))
     /\ \A i \in 2..Len(message) : Ch(message, i) \in NameChSet
  THEN Some(message)
  ELSE Undefined

\* input.split(/\s+/).filter(Boolean)
RECURSIVE SplitWords(_, _)
SplitWords(s, i) ==
  LET b == i + Run(SpaceSet, s, i)
      n == RunNot(SpaceSet, s, b)
  IN IF n = 0 THEN <<>>
     ELSE <<SubSeq(s, b, b + n - 1)>> \o SplitWords(s, b + n)

Capitalize(part) == toUpperCase(Ch(part, 1)) \o toLowerCase(SubSeq(part, 2, Len(part)))

\* .map((part) => part[0]?.toUpperCase() + part.slice(1).toLowerCase())
CapitalizeAll(parts) == [i \in 1..Len(parts) |-> Capitalize(parts[i])]

formatName(input) == Join(CapitalizeAll(SplitWords(input, 1)), " ")

\* a ?? b
Coalesce(a, b) == IF a # Undefined THEN a ELSE b

\* if (nameMatch) ... formatName(nameMatch)
NameOf(nameMatch) ==
  IF TruthyStr(nameMatch) THEN Some(formatName(Val(nameMatch))) ELSE Undefined

extractName(message) == NameOf(Coalesce(nameIntroMatch(message), bareNameMatch(message)))

-----------------------------------------------------------------------------
(* extractBookingDetails: occasion                                         *)

OCCASION_MATCHERS ==
  << [value |-> "Birthday",    keywords |-> <<"birthday", "bday", "turning">>],
     [value |-> "Baby Shower", keywords |-> <<"baby shower", "shower">>],
     [value |-> "Engagement",  keywords |-> <<"engagement">>],
     [value |-> "Anniversary", keywords |-> <<"anniversary">>],
     [value |-> "Corporate",   keywords |-> <<"corporate", "office", "team", "offsite">>],
     [value |-> "Other",       keywords |-> <<"wedding", "farewell", "meet", "gathering">>] >>

NoMatcher == [value |-> "", keywords |-> <<>>]

extractOccasion(normalized) ==
  LET foundOccasion ==
        FirstOr(SelectSeq(OCCASION_MATCHERS,
                          LAMBDA m : \E k \in 1..Len(m.keywords) :
                                       Includes(normalized, m.keywords[k])),
                NoMatcher)
  IN IF foundOccasion # NoMatcher THEN Some(foundOccasion.value)
     ELSE IF Includes(normalized, "other") THEN Some("Other")
     ELSE Undefined

-----------------------------------------------------------------------------
(* extractBookingDetails: dateTime                                         *)

\* the spellings of the month alternation that can match at one position,
\* in the order the expression tries them (the optional tail first)
MONTHS ==
  << "january", "jan", "february", "feb", "march", "mar", "april", "apr", "may",
     "june", "jun", "july", "jul", "august", "aug", "september", "sept", "sep",
     "october", "oct", "november", "nov", "december", "dec" >>

ORDINALS == <<"st", "nd", "rd", "th">>

\* the counts from hi down to lo that a greedy \d{lo,hi} can take at i
DigitCounts(s, i, lo, hi) ==
  LET n == Run(DigitSet, s, i)
      top == IF n < hi THEN n ELSE hi
  IN IF top < lo THEN <<>> ELSE [k \in 1..(top - lo + 1) |-> top - k + 1]

DateSepSet == {"/", "-"}

\* \d{1,2}(?:st|nd|rd|th)?\s+(?:jan(?:uary)?|...|dec(?:ember)?) at i: the
\* positions just after each way to match, in backtracking order
DayMonthEnds(s, i) ==
  LET AfterDay(j) ==
        \* with the ordinal suffix first, then without it
        LET suf == FirstOr(SelectSeq(ORDINALS, LAMBDA w : At(s, j, w)), "")
        IN IF suf # "" THEN <<j + Len(suf), j>> ELSE <<j>>
      AfterSpace(j) ==
        LET k == Run(SpaceSet, s, j)
        IN IF k = 0 THEN <<>>
           ELSE LET ms == SelectSeq(MONTHS, LAMBDA w : At(s, j + k, w))
                IN [x \in 1..Len(ms) |-> j + k + Len(ms[x])]
      ds == DigitCounts(s, i, 1, 2)
      starts == [x \in 1..Len(ds) |-> i + ds[x]]
      days == Flat([x \in 1..Len(starts) |-> AfterDay(starts[x])])
  IN Flat([x \in 1..Len(days) |-> AfterSpace(days[x])])

\* \d{1,2}[/-]\d{1,2}(?:[/-]\d{2,4})? at i
NumericDateEnds(s, i) ==
  LET AfterSep(j) ==
        IF Ch(s, j) \in DateSepSet
        THEN LET ds == DigitCounts(s, j + 1, 1, 2)
             IN [x \in 1..Len(ds) |-> j + 1 + ds[x]]
        ELSE <<>>
      AfterYear(j) ==
        ( IF Ch(s, j) \in DateSepSet
          THEN LET ys == DigitCounts(s, j + 1, 2, 4)
               IN [x \in 1..Len(ys) |-> j + 1 + ys[x]]
          ELSE <<>> ) \o <<j>>
      ds == DigitCounts(s, i, 1, 2)
      starts == [x \in 1..Len(ds) |-> i + ds[x]]
      months == Flat([x \in 1..Len(starts) |-> AfterSep(starts[x])])
  IN Flat([x \in 1..Len(months) |-> AfterYear(months[x])])

\* \d{4}-\d{2}-\d{2} at i
IsoDateEnds(s, i) ==
  IF /\ Run(DigitSet, s, i) >= 4
     /\ Ch(s, i + 4) = "-"
     /\ Run(DigitSet, s, i + 5) >= 2
     /\ Ch(s, i + 7) = "-"
     /\ Run(DigitSet, s, i + 8) >= 2
  THEN <<i + 10>>
  ELSE <<>>

\* where a match of datePattern that starts at i ends (exclusive), or 0
DateEndAt(s, i) ==
  IF ~Boundary(s, i) THEN 0
  ELSE FirstOr(SelectSeq(DayMonthEnds(s, i) \o NumericDateEnds(s, i) \o IsoDateEnds(s, i),
                         LAMBDA e : Boundary(s, e)),
               0)

\* message.match(datePattern)?.[0]
dateMatch(message) ==
  MatchText(message, [i \in 1..Len(message) |-> DateEndAt(message, i)])

TIME_WORDS == <<"morning", "evening", "night", "afternoon", "noon", "slot">>

\* \b(\d{1,2}(:\d{2})?\s*(?:am|pm))\b at i
ClockEnds(s, i) ==
  LET AfterMinutes(j) ==
        ( IF Ch(s, j) = ":" /\ Run(DigitSet, s, j + 1) >= 2 THEN <<j + 3>> ELSE <<>> )
        \o <<j>>
      AfterMeridiem(j) ==
        LET k == j + Run(SpaceSet, s, j)
        IN IF At(s, k, "am") \/ At(s, k, "pm") THEN <<k + 2>> ELSE <<>>
      ds == DigitCounts(s, i, 1, 2)
      starts == [x \in 1..Len(ds) |-> i + ds[x]]
      minutes == Flat([x \in 1..Len(starts) |-> AfterMinutes(starts[x])])
  IN IF ~Boundary(s, i) THEN <<>>
     ELSE SelectSeq(Flat([x \in 1..Len(minutes) |-> AfterMeridiem(minutes[x])]),
                    LAMBDA e : Boundary(s, e))

\* where a match of timePattern that starts at i ends (exclusive), or 0
TimeEndAt(s, i) ==
  LET words == SelectSeq(TIME_WORDS, LAMBDA w : At(s, i, w))
  IN FirstOr(ClockEnds(s, i) \o [x \in 1..Len(words) |-> i + Len(words[x])], 0)

\* message.match(timePattern)?.[0]
timeMatch(message) ==
  MatchText(message, [i \in 1..Len(message) |-> TimeEndAt(message, i)])

\* timePart, from timeMatch
TimePart(tm) ==
  IF tm = Undefined THEN ""
  ELSE IF /\ \E k \in 1..Len(TIME_WORDS) : TIME_WORDS[k] = toLowerCase(Val(tm))
          /\ ~\E i \in 1..Len(Val(tm)) : IsDigit(Ch(Val(tm), i))
       THEN toLowerCase(Val(tm))
       ELSE Val(tm)

\* ComposeDateTime with the time joined before the date
ComposeDateTime_TimeFirst(dm, timePart, message, normalized) ==
  IF dm # Undefined
  THEN Some(trim(Join(SelectSeq(<<timePart, Val(dm)>>, LAMBDA x : x # ""), " ")))
  ELSE IF Includes(normalized, "tomorrow") \/ Includes(normalized, "weekend")
  THEN Some(trim(message))
  ELSE Undefined

\* the dateTime assigned, from dateMatch and timePart
ComposeDateTime(dm, timePart, message, normalized) ==
  IF dm # Undefined
  THEN Some(trim(Join(SelectSeq(<<Val(dm), timePart>>, LAMBDA x : x # ""), " ")))
  ELSE IF Includes(normalized, "tomorrow") \/ Includes(normalized, "weekend")
  THEN Some(trim(message))
  ELSE Undefined

extractDateTime(message, normalized) ==
  ComposeDateTime(dateMatch(message), TimePart(timeMatch(message)), message, normalized)

-----------------------------------------------------------------------------
(* extractBookingDetails: guestCount, decoration, contact                  *)

GUEST_UNITS == <<"guest", "people", "pax", "heads", "person">>

\* Number.parseInt(digits, 10) of a string of decimal digits
RECURSIVE parseInt(_)
parseInt(digits) ==
  IF Len(digits) = 0 THEN 0
  ELSE 10 * parseInt(SubSeq(digits, 1, Len(digits) - 1))
       + (IndexIn(DigitChars, Ch(digits, Len(digits))) - 1)

\* where group 1 of
\* /(?:for|about|around)?\s*(\d{2,3})\s*(?:guests?|people|pax|heads|persons?)/
\* ends (exclusive) when its digits start at i, or 0. The optional prefix and
\* spaces before the digits never decide whether or what the group captures.
GuestDigitsEndAt(s, i) ==
  LET UnitAfter(n) ==
        \E u \in 1..Len(GUEST_UNITS) :
          At(s, i + n + Run(SpaceSet, s, i + n), GUEST_UNITS[u])
      counts == SelectSeq(DigitCounts(s, i, 2, 3), UnitAfter)
  IN FirstOr([x \in 1..Len(counts) |-> i + counts[x]], 0)

\* normalized.match(...)?.[1]
guestMatch(normalized) ==
  MatchText(normalized, [i \in 1..Len(normalized) |-> GuestDigitsEndAt(normalized, i)])

\* if (guestMatch) ... Number.parseInt(guestMatch[1], 10)
GuestCountOf(match) == IF match # Undefined THEN Some(parseInt(Val(match))) ELSE Undefined

extractGuestCount(normalized) == GuestCountOf(guestMatch(normalized))

\* normalized.match(/decor(?:ation)?\s*(yes|no)/)?.[1]
yesNoMatch(normalized) ==
  LET AnswerAt(i) ==
        IF ~At(normalized, i, "decor") THEN ""
        ELSE LET afterWord == IF At(normalized, i, "decoration") THEN <<i + 10, i + 5>>
                              ELSE <<i + 5>>
                 Answer(j) ==
                   LET k == j + Run(SpaceSet, normalized, j)
                   IN IF At(normalized, k, "yes") THEN "yes"
                      ELSE IF At(normalized, k, "no") THEN "no"
                      ELSE ""
                 hits == SelectSeq([x \in 1..Len(afterWord) |-> Answer(afterWord[x])],
                                   LAMBDA a : a # "")
             IN FirstOr(hits, "")
      answers == SelectSeq([i \in 1..Len(normalized) |-> AnswerAt(i)], LAMBDA a : a # "")
  IN [x \in 1..(IF Len(answers) > 0 THEN 1 ELSE 0) |-> answers[x]]

\* the branch of the decoration heuristic with the "yes decoration" test first
DecorationBranch_YesFirst(normalized, match) ==
  IF Includes(normalized, "yes decoration") THEN "yes decoration"
  ELSE IF Includes(normalized, "no decor") \/ Includes(normalized, "no decoration")
  THEN "no decor"
  ELSE IF Includes(normalized, "decor") \/ Includes(normalized, "decoration")
  THEN IF match # Undefined THEN "pattern"
       ELSE IF Includes(normalized, "decor") \/ Includes(normalized, "theme")
       THEN "implicit"
       ELSE "none"
  ELSE "none"

\* the branch of the decoration heuristic that assigns: "no decor", "pattern"
\* (yesNoMatch), "implicit", "yes decoration", or "none" when none assigns
DecorationBranch(normalized, match) ==
  IF Includes(normalized, "no decor") \/ Includes(normalized, "no decoration")
  THEN "no decor"
  ELSE IF Includes(normalized, "decor") \/ Includes(normalized, "decoration")
  THEN IF match # Undefined THEN "pattern"
       ELSE IF Includes(normalized, "decor") \/ Includes(normalized, "theme")
       THEN "implicit"
       ELSE "none"
  ELSE IF Includes(normalized, "yes decoration")
  THEN "yes decoration"
  ELSE "none"

\* the decoration the branch assigns
DecorationBy(branch, match) ==
  IF branch = "no decor" THEN Some("no")
  ELSE IF branch = "pattern" THEN Some(IF Val(match) = "yes" THEN "yes" ELSE "no")
  ELSE IF branch = "implicit" \/ branch = "yes decoration" THEN Some("yes")
  ELSE Undefined

\* the decoration assigned, from yesNoMatch
DecorationOf(normalized, match) ==
  DecorationBy(DecorationBranch(normalized, match), match)

extractDecoration(normalized) == DecorationOf(normalized, yesNoMatch(normalized))

\* [\d\s-]
ContactChSet == DigitSet \cup SpaceSet \cup {"-"}

\* s with the characters outside the class removed: replace(/[^...]/g, "")
RECURSIVE Keep(_, _)
Keep(class, s) ==
  IF Len(s) = 0 THEN ""
  ELSE (IF Ch(s, 1) \in class THEN Ch(s, 1) ELSE "") \o Keep(class, SubSeq(s, 2, Len(s)))

\* where a match of /\+?\d[\d\s-]{8,}/ that starts at i ends (exclusive), or 0
ContactEndAt(s, i) ==
  LET d == IF Ch(s, i) = "+" THEN i + 1 ELSE i
      n == Run(ContactChSet, s, d + 1)
  IN IF IsDigit(Ch(s, d)) /\ n >= 8 THEN d + 1 + n ELSE 0

\* message.match(/\+?\d[\d\s-]{8,}/)?.[0]
contactMatch(message) ==
  MatchText(message, [i \in 1..Len(message) |-> ContactEndAt(message, i)])

MinContactDigits == 9

\* compact, when it holds enough digits
AcceptContact(compact) ==
  IF Len(Keep(DigitSet, compact)) >= MinContactDigits THEN Some(compact) ELSE Undefined

\* if (contactMatch) ... contactMatch[0].replace(/[^\d+]/g, "")
ContactOf(match) ==
  IF match # Undefined THEN AcceptContact(Keep(DigitSet \cup {"+"}, Val(match)))
  ELSE Undefined

extractContact(message) == ContactOf(contactMatch(message))

-----------------------------------------------------------------------------
(* Intent checks                                                           *)

containsMediaRequest(message) ==
  \/ Includes(message, "photo")
  \/ Includes(message, "video")
  \/ Includes(message, "pictures")
  \/ Includes(message, "pics")
  \/ Includes(message, "images")

containsPriceQuestion(message) ==
  \/ Includes(message, "price")
  \/ Includes(message, "charges")
  \/ Includes(message, "rate")
  \/ Includes(message, "cost")

-----------------------------------------------------------------------------
(* extractBookingDetails                                                   *)

initialState ==
  [ name |-> Undefined, occasion |-> Undefined, dateTime |-> Undefined,
    guestCount |-> Undefined, decoration |-> Undefined, contact |-> Undefined,
    bookingComplete |-> FALSE ]

\* a field is attempted when its current value is falsy (!next.field) and is
\* assigned only when its heuristic finds something
Fill(current, truthy, found) ==
  IF ~truthy /\ found # Undefined THEN found ELSE current

\* everything the turn reads off the utterance alone: what each field's
\* heuristic finds in it, and the two intent checks
scanMessage(message) ==
  LET normalized == toLowerCase(message)
  IN [ name       |-> extractName(message),
       occasion   |-> extractOccasion(normalized),
       dateTime   |-> extractDateTime(message, normalized),
       guestCount |-> extractGuestCount(normalized),
       decoration |-> extractDecoration(normalized),
       contact    |-> extractContact(message),
       media      |-> containsMediaRequest(normalized),
       price      |-> containsPriceQuestion(normalized) ]

\* what the user may type into the form, in the order the bound admits it
Inputs ==
  << "I am Rohan",
     "birthday!",
     "we need it on 2024-12-05 evening",
     "around 75 guests",
     "decor yes!",
     "+91 98765 43210",
     "what's the price?",
     "any photos?",
     "I am  7",
     "00 guests",
     "corporate offsite",
     "no decor.",
     "80 pax, what is the cost? send pics",
     "  ok. ",
     "   ",
     "theme party!" >>

\* how many of the Inputs the user chooses from
NumInputs == 15

\* the count of confirmations is kept up to this number
MaxConfirmations == 2

\* messages extractBookingDetails is applied to on its own: wordings of the
\* decoration answer and of the date and time
ExtractUtterances ==
  { "theme party!", "a garden theme", "no theme", "yes decoration",
    "yes decoration please", "decoration yes", "decor no", "decoration no thanks",
    "no decoration", "no decor.", "decor yes!", "we want decor", "decoration",
    "a garden theme with decor", "DECOR YES", "decoration  yes", "decorations yes",
    "decor not needed", "yes", "no",
    "we need it on 2024-12-05 evening", "5th march at 7 pm", "12/05 night",
    "12-05-2024", "tomorrow evening", "this weekend", "evening", "7:30 pm",
    "next friday", "Tomorrow", "5 March", "tonight 2024-12-05", "1st jan 10:30am",
    "2024-12-05 50 guests", "on 31/12/24 around noon for 120 people",
    "I am Rohan", "around 75 guests", "+91 98765 43210" }

\* the trimmed inputs and the messages above, and scanMessage of each,
\* computed once
Utterances == {trim(Inputs[k]) : k \in 1..Len(Inputs)} \cup ExtractUtterances

ScanTable == [m \in Utterances |-> scanMessage(m)]

Scanned(message) == ScanTable[message]

\* the record extractBookingDetails returns, from what the message holds
Details(found, state) ==
  [ name        |-> Fill(state.name, TruthyStr(state.name), found.name),
    occasion    |-> Fill(state.occasion, TruthyStr(state.occasion), found.occasion),
    dateTime    |-> Fill(state.dateTime, TruthyStr(state.dateTime), found.dateTime),
    guestCount  |-> Fill(state.guestCount, TruthyNum(state.guestCount), found.guestCount),
    decoration  |-> Fill(state.decoration, TruthyStr(state.decoration), found.decoration),
    contact     |-> Fill(state.contact, TruthyStr(state.contact), found.contact),
    bookingComplete |-> state.bookingComplete ]

extractBookingDetails(message, state) == Details(Scanned(message), state)

-----------------------------------------------------------------------------
(* getNextMissingField, personalizedPrompt                                 *)

FieldOrder == <<"name", "occasion", "dateTime", "guestCount", "decoration", "contact">>

\* the return value null of getNextMissingField
null == "null"

\* getNextMissingField with "contact" left out of the order
getNextMissingField_SkipsContact(state) ==
  FirstOr(SelectSeq(SubSeq(FieldOrder, 1, 5), LAMBDA field : state[field] = Undefined),
          null)

\* getNextMissingField going through the order from its end
getNextMissingField_Reversed(state) ==
  FirstOr(SelectSeq([i \in 1..Len(FieldOrder) |-> FieldOrder[Len(FieldOrder) + 1 - i]],
                    LAMBDA field : state[field] = Undefined),
          null)

\* getNextMissingField testing dateTime before occasion
getNextMissingField_DateFirst(state) ==
  FirstOr(SelectSeq(<<"name", "dateTime", "occasion", "guestCount", "decoration", "contact">>,
                    LAMBDA field : state[field] = Undefined),
          null)

getNextMissingField(state) ==
  FirstOr(SelectSeq(FieldOrder, LAMBDA field : state[field] = Undefined), null)

QUESTIONS ==
  [ name |-> "May I know your name, please?",
    occasion |-> "What are you celebrating? (Birthday, Baby Shower, Engagement, Anniversary, Corporate, or something else?)",
    dateTime |-> "Which date and preferred time slot would you like?",
    guestCount |-> "How many guests are you expecting?",
    decoration |-> "Do you need us to arrange decoration as well? (Yes/No)",
    contact |-> "Could you share a contact number so I can reach you quickly if needed?" ]

\* s.split(" ")[0]
FirstWord(s) ==
  LET i == FirstHit([k \in 1..Len(s) |-> Ch(s, k) = " "], FALSE)
  IN IF i = 0 THEN s ELSE SubSeq(s, 1, i - 1)

personalizedPrompt(field, state) ==
  LET basePrompt == QUESTIONS[field]
  IN IF field = "guestCount" /\ TruthyStr(state.name)
     THEN "Thanks, " \o FirstWord(Val(state.name)) \o "! " \o basePrompt
     ELSE IF field = "dateTime" /\ TruthyStr(state.occasion)
     THEN Val(state.occasion) \o " sounds lovely! " \o basePrompt
     ELSE IF field = "decoration" /\ TruthyStr(state.occasion)
     THEN "Would you like us to style " \o toLowerCase(Val(state.occasion))
          \o " decor? Please let me know Yes or No."
     ELSE basePrompt

-----------------------------------------------------------------------------
(* buildConfirmationMessage                                                *)

basePrice == 18000
perGuest == 250
lowPerGuest == 150
lowThreshold == 40
highThreshold == 60
highMargin == 6000

Max(a, b) == IF a >= b THEN a ELSE b

\* the digits of the integer part in groups of two before the last three
RECURSIVE GroupTwos(_)
GroupTwos(digits) ==
  IF Len(digits) <= 2 THEN digits
  ELSE GroupTwos(SubSeq(digits, 1, Len(digits) - 2)) \o ","
       \o SubSeq(digits, Len(digits) - 1, Len(digits))

\* value.toLocaleString("en-IN") of a natural number
formatAmount(value) ==
  LET digits == ToString(value)
  IN IF Len(digits) <= 3 THEN digits
     ELSE GroupTwos(SubSeq(digits, 1, Len(digits) - 3)) \o ","
          \o SubSeq(digits, Len(digits) - 2, Len(digits))

\* priceLow with the threshold of the upper end of the band
priceLow_SharedThreshold(guestCount) ==
  basePrice + Max(guestCount - highThreshold, 0) * lowPerGuest

priceLow(guestCount) == basePrice + Max(guestCount - lowThreshold, 0) * lowPerGuest

priceHigh(guestCount) ==
  priceLow(guestCount) + Max(guestCount - highThreshold, 0) * perGuest + highMargin

priceLine(guestCount) ==
  IF guestCount > 0
  THEN "For a guest list of around " \o ToString(guestCount)
       \o ", our packages typically range between Rs. " \o formatAmount(priceLow(guestCount))
       \o " and Rs. " \o formatAmount(priceHigh(guestCount))
       \o " depending on final setup and services."
  ELSE "Our packages are flexible, and I can tailor the pricing once we finalise the guest count."

decorLine(state) ==
  IF state.decoration = Some("yes")
  THEN "We will include a decor briefing so the theme feels just right."
  ELSE "We can keep the space ready for your own decor team, or arrange decor later if you change your mind."

ConfirmationOpening == "Wonderful, "

\* the response r is a confirmation message
IsConfirmation(r) == At(r, 1, ConfirmationOpening)

buildConfirmationMessage(state) ==
  LET firstName == IF state.name = Undefined THEN "there" ELSE FirstWord(Val(state.name))
      guestCount == IF state.guestCount = Undefined THEN 0 ELSE Val(state.guestCount)
      dateTime == IF state.dateTime = Undefined THEN "undefined" ELSE Val(state.dateTime)
  IN Join(<< ConfirmationOpening \o firstName \o "! HAPPY HEARTS is available on "
               \o dateTime \o ".",
             priceLine(guestCount),
             "What is included: 4-hour exclusive hall access, lounge seating with premium linens, ambient lighting, plug-and-play sound system, on-site event coordinator, and housekeeping support.",
             decorLine(state),
             "To lock in your booking we take a Rs. 10,000 advance (UPI or bank transfer) with the balance due on the event day.",
             "Let me know if you'd like me to reserve the slot or help with any custom requests." >>,
          "\n\n")

-----------------------------------------------------------------------------
(* handleAssistantTurn                                                     *)

VENUE_PREVIEW_URL == "https://happyhearts.events/preview?utm_source=assistant"

MediaResponse == "Here is our venue preview: " \o VENUE_PREVIEW_URL

PricingDisclaimer ==
  "Our pricing depends on date, timing & guest count. I can give an exact quote once I have these 3 details."

\* the dash of the source text is written "-" here
CompleteFiller == "Happy to help with anything else you need-just let me know!"
ContextFiller == "I can assist with any other questions or special requests too."
GenericFiller ==
  "Thanks for the details! Let me know the remaining information so I can keep everything moving for you."

ContextPhrase == "something else you need"

\* ensureMinimumResponse without its fallbacks
ensureMinimumResponse_NoFallback(responses, state, lastAssistantText) == responses

\* ensureMinimumResponse without the test of bookingComplete
ensureMinimumResponse_NoCompleteTest(responses, state, lastAssistantText) ==
  IF Len(responses) > 0 THEN responses
  ELSE IF Includes(lastAssistantText, ContextPhrase) THEN <<ContextFiller>>
  ELSE <<GenericFiller>>

ensureMinimumResponse(responses, state, lastAssistantText) ==
  IF Len(responses) > 0 THEN responses
  ELSE IF state.bookingComplete THEN <<CompleteFiller>>
  ELSE IF Includes(lastAssistantText, ContextPhrase) THEN <<ContextFiller>>
  ELSE <<GenericFiller>>

\* the condition of the price branch
PriceBranch(priceQuestion, updated) ==
  /\ priceQuestion
  /\ (~TruthyStr(updated.dateTime) \/ ~TruthyNum(updated.guestCount))

\* the completion branch taken again on a record already complete
CompletionBranch_Repeats(missingField, updated) == missingField = null

\* the completion branch with the test of bookingComplete inverted
CompletionBranch_Inverted(missingField, updated) ==
  missingField = null /\ updated.bookingComplete

\* the condition of the completion branch
CompletionBranch(missingField, updated) ==
  missingField = null /\ ~updated.bookingComplete

\* the return statement a call leaves by: "price", "completion" or "prompt"
PathOf(priceQuestion, missingField, updated) ==
  IF PriceBranch(priceQuestion, updated) THEN "price"
  ELSE IF CompletionBranch(missingField, updated) THEN "completion"
  ELSE "prompt"

\* Pushed with the pricing disclaimer pushed before the media link
Pushed_DisclaimerFirst(path, media, prompt, confirmation) ==
  IF path = "price" THEN <<PricingDisclaimer>> \o media \o prompt
  ELSE IF path = "completion" THEN media \o <<confirmation>>
  ELSE media \o prompt

\* the responses pushed before the return statement of the path
Pushed(path, media, prompt, confirmation) ==
  IF path = "price" THEN media \o <<PricingDisclaimer>> \o prompt
  ELSE IF path = "completion" THEN media \o <<confirmation>>
  ELSE media \o prompt

\* the result {responses, state} of the return statement of the path
Returned(path, responses, updated, lastAssistantText) ==
  [ responses |-> IF path = "completion" THEN responses
                  ELSE ensureMinimumResponse(responses, updated, lastAssistantText),
    state |-> IF path = "completion" THEN [updated EXCEPT !.bookingComplete = TRUE]
              ELSE updated,
    path |-> path ]

\* the body of handleAssistantTurn after the extraction and the two checks of
\* the message
Respond(updated, mediaRequest, priceQuestion, missingField, lastAssistantText) ==
  Returned(PathOf(priceQuestion, missingField, updated),
           Pushed(PathOf(priceQuestion, missingField, updated),
                  IF mediaRequest THEN <<MediaResponse>> ELSE <<>>,
                  IF missingField # null
                  THEN <<personalizedPrompt(missingField, updated)>>
                  ELSE <<>>,
                  IF missingField = null THEN buildConfirmationMessage(updated) ELSE ""),
           updated, lastAssistantText)

\* handleAssistantTurn on what the message holds
RespondTo(found, updated, lastAssistantText) ==
  Respond(updated, found.media, found.price, getNextMissingField(updated),
          lastAssistantText)

\* the result {responses, state} of a call, and the return statement that
\* produced it
handleAssistantTurn(previousState, message, lastAssistantText) ==
  RespondTo(Scanned(message), extractBookingDetails(message, previousState),
            lastAssistantText)

-----------------------------------------------------------------------------
(* The conversation                                                        *)

\* the text handleAssistantTurn is given as lastAssistantText when it is
\* called directly rather than from the form
LastTexts == {"Is there something else you need?"}

initialMessage ==
  "Hello! I'm the HappyHearts WhatsApp Assistant. I'd be delighted to help you plan at HAPPY HEARTS - An Event Space. To get started, could you tell me your name?"

NoTurn ==
  [ previousState |-> initialState, message |-> "", lastAssistantText |-> "",
    responses |-> <<>>, path |-> "none" ]

Init ==
  /\ bookingState = initialState
  /\ lastAssistantMessage = initialMessage
  /\ turn = NoTurn
  /\ confirmations = 0

\* one call of handleAssistantTurn on the current record, its result stored
Store(result, message, lastAssistantText) ==
  /\ bookingState' = result.state
  /\ turn' = [ previousState |-> bookingState, message |-> message,
               lastAssistantText |-> lastAssistantText,
               responses |-> result.responses, path |-> result.path ]
  /\ lastAssistantMessage' =
       IF Len(result.responses) > 0
       THEN result.responses[Len(result.responses)]
       ELSE lastAssistantMessage
  /\ confirmations' =
       IF /\ \E i \in 1..Len(result.responses) : IsConfirmation(result.responses[i])
          /\ confirmations < MaxConfirmations
       THEN confirmations + 1
       ELSE confirmations

Turn(message, lastAssistantText) ==
  Store(handleAssistantTurn(bookingState, message, lastAssistantText),
        message, lastAssistantText)

\* handleSubmit: the form is submitted with the text input
handleSubmit(input) ==
  LET trimmed == trim(input)
  IN IF trimmed = ""
     THEN UNCHANGED vars
     ELSE Turn(trimmed, lastAssistantMessage)

Submit == \E k \in 1..NumInputs : handleSubmit(Inputs[k])

\* the engine called by another caller, with a last prompt text of its own
Call ==
  \E k \in 1..NumInputs, lastAssistantText \in LastTexts :
    /\ trim(Inputs[k]) # ""
    /\ Turn(trim(Inputs[k]), lastAssistantText)

Next == Submit \/ Call

Spec == Init /\ [][Next]_vars

-----------------------------------------------------------------------------
(* Vocabulary of the properties                                            *)

BookingFields == {"name", "occasion", "dateTime", "guestCount", "decoration", "contact"}

\* the priority of each field in the order the specification fixes
Priority ==
  [ name |-> 1, occasion |-> 2, dateTime |-> 3, guestCount |-> 4, decoration |-> 5,
    contact |-> 6 ]

\* a field is present when it is not undefined, which is when
\* getNextMissingField does not report it
Present(state, f) == state[f] # Undefined

AllPresent(state) == \A f \in BookingFields : Present(state, f)

EarliestAbsent(state) ==
  CHOOSE f \in BookingFields :
    /\ ~Present(state, f)
    /\ \A g \in BookingFields : Priority[g] < Priority[f] => Present(state, g)

TurnTaken == turn.path # "none"

LastResponse == turn.responses[Len(turn.responses)]

Emitted(r) == \E i \in 1..Len(turn.responses) : turn.responses[i] = r

HasConfirmation == \E i \in 1..Len(turn.responses) : IsConfirmation(turn.responses[i])

EndsWith(r, tail) == At(r, Len(r) - Len(tail) + 1, tail)

\* the response r asks for the field f, in its base or its personalized wording
AsksFor(r, f) ==
  \/ EndsWith(r, QUESTIONS[f])
  \/ f = "decoration" /\ At(r, 1, "Would you like us to style ")

IsPrompt(r) == \E f \in BookingFields : AsksFor(r, f)

IsFiller(r) == r \in {CompleteFiller, ContextFiller, GenericFiller}

\* the utterance of the turn holds a price keyword / a media keyword
PriceKeywords == <<"price", "charges", "rate", "cost">>
MediaKeywords == <<"photo", "video", "pictures", "pics", "images">>

HoldsOneOf(message, words) ==
  \E k \in 1..Len(words) : Includes(toLowerCase(message), words[k])

-----------------------------------------------------------------------------
(* C1 .. C10                                                               *)

\* C1: monotonicity of extraction. In every turn each of the six fields of the
\* returned record equals its value in the incoming record, or was absent
\* there and is present now: a present field is never cleared or replaced.
C1_Monotonic ==
  TurnTaken =>
    \A f \in BookingFields :
      \/ bookingState[f] = turn.previousState[f]
      \/ ~Present(turn.previousState, f) /\ Present(bookingState, f)

\* C2: terminal immutability. A turn on a record with bookingComplete = TRUE
\* returns the record it was given, fields and flag.
C2_TerminalImmutable ==
  (TurnTaken /\ turn.previousState.bookingComplete) => bookingState = turn.previousState

\* C3: confirmation exactly once. At most one turn of a conversation returns
\* the confirmation message, a turn returns it exactly when it changes
\* bookingComplete from FALSE to TRUE, and bookingComplete never goes back
\* from TRUE to FALSE.
C3_ConfirmationOnce ==
  /\ confirmations <= 1
  /\ TurnTaken =>
       /\ HasConfirmation <=>
            (~turn.previousState.bookingComplete /\ bookingState.bookingComplete)
       /\ turn.previousState.bookingComplete => bookingState.bookingComplete

\* a later turn on a record whose confirmation has been given
C3_Witness ==
  /\ TurnTaken
  /\ turn.previousState.bookingComplete
  /\ confirmations = 1
  /\ ~HasConfirmation

\* C4: a complete booking has all six fields present.
C4_CompleteHasAllFields == bookingState.bookingComplete => AllPresent(bookingState)

C4_Witness == TurnTaken /\ bookingState.bookingComplete /\ turn.path = "completion"

\* C5: a record returned by a turn that has all six fields present has
\* bookingComplete = TRUE: the turn that fills the last field completes.
C5_AllFieldsThenComplete ==
  (TurnTaken /\ AllPresent(bookingState)) => bookingState.bookingComplete

\* C6: getNextMissingField returns the earliest absent field of the fixed
\* order, and null exactly when none is absent; a turn that leaves a field
\* absent ends by asking for the earliest absent one, whatever it filled.
C6_MissingFieldPriority ==
  LET missingField == getNextMissingField(bookingState)
  IN /\ (missingField = null) <=> AllPresent(bookingState)
     /\ missingField # null => missingField = EarliestAbsent(bookingState)
     /\ (TurnTaken /\ ~AllPresent(bookingState)) =>
          AsksFor(LastResponse, EarliestAbsent(bookingState))

\* a turn that filled a field while one of earlier priority stays absent
C6_Witness ==
  /\ TurnTaken
  /\ \E f, g \in BookingFields :
       /\ Priority[f] < Priority[g]
       /\ ~Present(turn.previousState, g)
       /\ Present(bookingState, g)
       /\ ~Present(bookingState, f)
       /\ f = EarliestAbsent(bookingState)
       /\ AsksFor(LastResponse, f)

\* C7: every turn returns at least one response.
C7_NonEmptyReply == TurnTaken => Len(turn.responses) >= 1

\* a turn in which only the fallback supplied the response
C7_Witness == TurnTaken /\ turn.path = "prompt" /\ turn.responses = <<CompleteFiller>>

\* C8: completion branch. A turn that does not return from the price branch,
\* leaves no field missing and was given a record not yet complete ends with
\* the confirmation message, returns no prompt and no filler, and returns
\* bookingComplete = TRUE.
C8_CompletionBranch ==
  ( /\ TurnTaken
    /\ turn.path # "price"
    /\ AllPresent(bookingState)
    /\ ~turn.previousState.bookingComplete )
  => /\ IsConfirmation(LastResponse)
     /\ \A i \in 1..Len(turn.responses) :
          ~IsPrompt(turn.responses[i]) /\ ~IsFiller(turn.responses[i])
     /\ bookingState.bookingComplete

C8_Witness ==
  /\ TurnTaken
  /\ turn.path # "price"
  /\ AllPresent(bookingState)
  /\ ~turn.previousState.bookingComplete
  /\ IsConfirmation(LastResponse)

\* the turn's utterance holds a price keyword while dateTime or guestCount is
\* missing after extraction
PriceAsked == HoldsOneOf(turn.message, PriceKeywords)

DetailsMissing == ~Present(bookingState, "dateTime") \/ ~Present(bookingState, "guestCount")

\* C9: price branch precedence. A turn whose utterance holds a price keyword
\* while dateTime or guestCount is still missing returns the disclaimer
\* followed by the prompt for the first missing field, no confirmation, and
\* bookingComplete as it was given, with or without a media link before;
\* and no other turn returns the disclaimer.
C9_PriceBranch ==
  TurnTaken =>
    /\ (PriceAsked /\ DetailsMissing) =>
         /\ Len(turn.responses) >= 2
         /\ turn.responses[Len(turn.responses) - 1] = PricingDisclaimer
         /\ LastResponse = personalizedPrompt(EarliestAbsent(bookingState), bookingState)
         /\ Len(turn.responses) = 3 => turn.responses[1] = MediaResponse
         /\ Len(turn.responses) <= 3
         /\ ~HasConfirmation
         /\ bookingState.bookingComplete = turn.previousState.bookingComplete
    /\ Emitted(PricingDisclaimer) => (PriceAsked /\ DetailsMissing)

\* C10: scenario E generalised. A turn on a complete record whose utterance
\* holds a price keyword and no media keyword returns the "already complete"
\* filler and nothing else, and returns the record it was given.
C10_PriceAfterComplete ==
  ( /\ TurnTaken
    /\ turn.previousState.bookingComplete
    /\ PriceAsked
    /\ ~HoldsOneOf(turn.message, MediaKeywords) )
  => /\ turn.responses = <<CompleteFiller>>
     /\ bookingState = turn.previousState

-----------------------------------------------------------------------------
(* C11 .. C19                                                              *)

\* C11: guestCount, whenever a record holds it, is a positive integer: no
\* utterance the guest-count pattern accepts stores 0.
C11_GuestCountPositive ==
  Present(bookingState, "guestCount") => Val(bookingState.guestCount) >= 1

\* the largest number the guest pattern's \d{2,3} can hold
MaxGuests == 999

\* the records buildConfirmationMessage is applied to: every guest count the
\* pattern can store, and none
QuotedStates ==
  { [ name |-> Some("Rohan"), occasion |-> Some("Birthday"),
      dateTime |-> Some("2024-12-05 evening"), guestCount |-> g,
      decoration |-> Some(d), contact |-> Some("+919876543210"),
      bookingComplete |-> FALSE ] :
    g \in {Undefined} \cup {Some(n) : n \in 0..MaxGuests}, d \in {"yes", "no"} }

PriceInit ==
  /\ bookingState \in QuotedStates
  /\ lastAssistantMessage = initialMessage
  /\ turn = NoTurn
  /\ confirmations = 0

\* responses.push(buildConfirmationMessage(updated)); updated.bookingComplete = true
Confirm ==
  /\ ~bookingState.bookingComplete
  /\ Store([ responses |-> <<buildConfirmationMessage(bookingState)>>,
             state |-> [bookingState EXCEPT !.bookingComplete = TRUE],
             path |-> "confirmation" ],
           "", lastAssistantMessage)

PriceNext == Confirm

PriceSpec == PriceInit /\ [][PriceNext]_vars

\* the guest count a confirmation was built for, 0 when the record had none
QuotedGuests ==
  IF Present(turn.previousState, "guestCount") THEN Val(turn.previousState.guestCount)
  ELSE 0

FlexibleLine ==
  "Our packages are flexible, and I can tailor the pricing once we finalise the guest count."

\* the paragraph of a confirmation that states the band low .. high for g guests
BandLine(g, low, high) ==
  "For a guest list of around " \o ToString(g)
  \o ", our packages typically range between Rs. " \o formatAmount(low)
  \o " and Rs. " \o formatAmount(high) \o " depending on final setup and services."

\* the confirmation has the paragraph line
HasParagraph(line) == Includes(LastResponse, "\n\n" \o line \o "\n\n")

\* C12: price band. For every guest count g > 0 the confirmation states the
\* band low = 18000 + max(g - 40, 0) * 150, high = low + max(g - 60, 0) * 250
\* + 6000, with low >= 18000 and high - low >= 6000, and 24,000 to 35,000 for
\* g = 80; for a guest count of 0 or none the flexible-pricing line stands in
\* place of the band.
C12_PriceBand ==
  turn.path = "confirmation" =>
    LET g == QuotedGuests
        low == 18000 + Max(g - 40, 0) * 150
        high == low + Max(g - 60, 0) * 250 + 6000
    IN IF g > 0
       THEN /\ HasParagraph(BandLine(g, low, high))
            /\ ~Includes(LastResponse, FlexibleLine)
            /\ low >= 18000
            /\ high - low >= 6000
            /\ g = 80 => Includes(LastResponse, " between Rs. 24,000 and Rs. 35,000 ")
       ELSE /\ HasParagraph(FlexibleLine)
            /\ ~Includes(LastResponse, "range between")

\* the confirmation built for 80 guests
C12_Witness ==
  /\ turn.path = "confirmation"
  /\ QuotedGuests = 80
  /\ Includes(LastResponse, " between Rs. 24,000 and Rs. 35,000 ")

\* the place of a response in the order of a turn: media link, pricing
\* disclaimer, prompt or confirmation, fallback filler; 0 for any other text
Place(r) ==
  IF r = MediaResponse THEN 1
  ELSE IF r = PricingDisclaimer THEN 2
  ELSE IF IsPrompt(r) \/ IsConfirmation(r) THEN 3
  ELSE IF IsFiller(r) THEN 4
  ELSE 0

HasPrompt == \E i \in 1..Len(turn.responses) : IsPrompt(turn.responses[i])

HasFiller == \E i \in 1..Len(turn.responses) : IsFiller(turn.responses[i])

\* C13: response ordering and shape. The responses of a turn are, in this
\* order and each at most once, the media link, the pricing disclaimer, and
\* the prompt or the confirmation; a fallback filler is only ever the sole
\* response; there are at most three responses; the confirmation comes with
\* no pricing disclaimer and no prompt.
C13_ResponseShape ==
  TurnTaken =>
    /\ \A i \in 1..Len(turn.responses) : Place(turn.responses[i]) # 0
    /\ \A i, j \in 1..Len(turn.responses) :
         i < j => Place(turn.responses[i]) < Place(turn.responses[j])
    /\ HasFiller => Len(turn.responses) = 1
    /\ Len(turn.responses) <= 3
    /\ HasConfirmation => ~Emitted(PricingDisclaimer) /\ ~HasPrompt

\* a turn that returns the media link, the disclaimer and a prompt
C13_Witness ==
  /\ TurnTaken
  /\ Len(turn.responses) = 3
  /\ turn.responses[1] = MediaResponse
  /\ turn.responses[2] = PricingDisclaimer
  /\ IsPrompt(turn.responses[3])

\* the prompt C14 names for the field f on the record state
NamedPrompt(f, state) ==
  IF f = "guestCount" /\ Present(state, "name")
  THEN "Thanks, " \o FirstWord(Val(state.name)) \o "! " \o QUESTIONS[f]
  ELSE IF f = "dateTime" /\ Present(state, "occasion")
  THEN Val(state.occasion) \o " sounds lovely! " \o QUESTIONS[f]
  ELSE IF f = "decoration" /\ Present(state, "occasion")
  THEN "Would you like us to style " \o toLowerCase(Val(state.occasion))
       \o " decor? Please let me know Yes or No."
  ELSE QUESTIONS[f]

\* C14: the prompt follows the missing field. A turn whose record after
\* extraction still misses a field ends with the prompt for the first missing
\* field: prefixed "Thanks, {first name}!" for guestCount when the name is
\* known, prefixed "{occasion} sounds lovely!" for dateTime and in the
\* occasion wording for decoration when the occasion is known, the base
\* question otherwise. "I am Rohan" on the empty record gives name "Rohan"
\* and the occasion question alone; "around 75 guests" on a record with name,
\* occasion and dateTime gives guestCount 75 and the occasion wording of the
\* decoration prompt.
C14_PromptFollowsMissing ==
  TurnTaken =>
    /\ ~AllPresent(bookingState) =>
         LastResponse = NamedPrompt(EarliestAbsent(bookingState), bookingState)
    /\ (turn.previousState = initialState /\ turn.message = "I am Rohan") =>
         /\ bookingState.name = Some("Rohan")
         /\ turn.responses = <<QUESTIONS["occasion"]>>
    /\ ( /\ turn.message = "around 75 guests"
         /\ \A f \in BookingFields :
              Present(turn.previousState, f) <=> f \in {"name", "occasion", "dateTime"} ) =>
         /\ bookingState.guestCount = Some(75)
         /\ At(LastResponse, 1, "Would you like us to style ")

-----------------------------------------------------------------------------
(* extractBookingDetails on its own                                        *)

\* the records extractBookingDetails is given: empty, with name and occasion,
\* with all but the decoration, and with date and decoration already set
ExtractStates ==
  { initialState,
    [initialState EXCEPT !.name = Some("Rohan"), !.occasion = Some("Birthday")],
    [initialState EXCEPT !.name = Some("Rohan"), !.occasion = Some("Birthday"),
                         !.dateTime = Some("12/05 night"), !.guestCount = Some(75),
                         !.contact = Some("+919876543210")],
    [initialState EXCEPT !.dateTime = Some("12/05 night"), !.decoration = Some("no")] }

ExtractInit ==
  /\ bookingState \in ExtractStates
  /\ lastAssistantMessage = initialMessage
  /\ turn = NoTurn
  /\ confirmations = 0

\* const updated = extractBookingDetails(message, previousState)
Extract ==
  /\ turn.path = "none"
  /\ \E message \in ExtractUtterances :
       Store([ responses |-> <<>>,
               state |-> extractBookingDetails(message, bookingState),
               path |-> "extract" ],
             message, lastAssistantMessage)

ExtractNext == Extract

ExtractSpec == ExtractInit /\ [][ExtractNext]_vars

\* the message of the turn, lowercased
Normalized == toLowerCase(turn.message)

\* the field f was unset before the turn
Unset(f) == ~Present(turn.previousState, f)

\* C15: decoration heuristic on an unset decoration. A text holding "no
\* decor" sets no; otherwise a text holding "decor" with the pattern
\* "decor(ation) yes|no" sets the answer of the pattern; otherwise a text
\* that merely holds "decor" or "theme" sets yes, so a text holding "theme"
\* and not "decor" sets yes.
C15_DecorationHeuristic ==
  (TurnTaken /\ Unset("decoration")) =>
    IF Includes(Normalized, "no decor")
    THEN bookingState.decoration = Some("no")
    ELSE IF Includes(Normalized, "decor") /\ yesNoMatch(Normalized) # Undefined
    THEN bookingState.decoration = yesNoMatch(Normalized)
    ELSE (Includes(Normalized, "decor") \/ Includes(Normalized, "theme")) =>
           bookingState.decoration = Some("yes")

\* the record of scenario C: name and occasion set, nothing else
NameAndOccasionSet ==
  \A f \in BookingFields : Present(turn.previousState, f) <=> f \in {"name", "occasion"}

\* C16: date and time composition on an unset dateTime. With a date match in
\* the message, dateTime becomes the matched date, then one space and the
\* matched time when there is one, and nothing else of the message; "we need
\* it on 2024-12-05 evening" on a record with name and occasion gives
\* "2024-12-05 evening" and fills no other field. Without a date match,
\* dateTime is set only if the message holds "tomorrow" or "weekend", and
\* then to the whole trimmed message.
C16_DateTimeComposition ==
  (TurnTaken /\ Unset("dateTime")) =>
    LET date == dateMatch(turn.message)
        time == timeMatch(turn.message)
    IN /\ date # Undefined =>
            bookingState.dateTime =
              Some(Val(date) \o (IF time = Undefined THEN "" ELSE " " \o Val(time)))
       /\ (date = Undefined /\ Present(bookingState, "dateTime")) =>
            /\ Includes(Normalized, "tomorrow") \/ Includes(Normalized, "weekend")
            /\ bookingState.dateTime = Some(trim(turn.message))
       /\ (turn.message = "we need it on 2024-12-05 evening" /\ NameAndOccasionSet) =>
            /\ bookingState.dateTime = Some("2024-12-05 evening")
            /\ \A f \in BookingFields \ {"dateTime"} :
                 bookingState[f] = turn.previousState[f]

\* scenario C: a date and a time taken out of a longer message
C16_Witness ==
  /\ TurnTaken
  /\ NameAndOccasionSet
  /\ turn.message = "we need it on 2024-12-05 evening"
  /\ bookingState.dateTime = Some("2024-12-05 evening")

\* texts a caller may pass as lastAssistantText: with and without the phrase
\* ensureMinimumResponse looks for
ProbeTexts == LastTexts \cup {initialMessage, CompleteFiller, ""}

\* C17: the fallback fillers. A turn whose response is a filler returns a
\* record with bookingComplete = TRUE; the context filler and the generic
\* filler are returned by no turn; and the result of a turn is the same
\* whatever lastAssistantText is.
C17_FillerOnlyWhenComplete ==
  TurnTaken =>
    /\ HasFiller => bookingState.bookingComplete
    /\ ~Emitted(ContextFiller)
    /\ ~Emitted(GenericFiller)
    /\ \A text \in ProbeTexts :
         handleAssistantTurn(turn.previousState, turn.message, text)
           = [ responses |-> turn.responses, state |-> bookingState, path |-> turn.path ]

\* a filler supplied in a turn whose lastAssistantText holds the phrase of the
\* context filler
C17_Witness ==
  /\ TurnTaken
  /\ Includes(turn.lastAssistantText, ContextPhrase)
  /\ turn.responses = <<CompleteFiller>>
  /\ bookingState.bookingComplete

\* the occasion wording of the dateTime prompt and of the decoration prompt
EnrichedDateTimePrompt(occasion) == occasion \o " sounds lovely! " \o QUESTIONS["dateTime"]

EnrichedDecorationPrompt(occasion) ==
  "Would you like us to style " \o toLowerCase(occasion)
  \o " decor? Please let me know Yes or No."

\* C18: the dateTime prompt and the decoration prompt are always enriched.
\* Whenever a turn returns a prompt for dateTime or for decoration, the
\* occasion is set and the prompt is the occasion wording; the base questions
\* of the two fields are returned by no turn.
C18_OccasionPromptsEnriched ==
  TurnTaken =>
    \A i \in 1..Len(turn.responses) :
      /\ AsksFor(turn.responses[i], "dateTime") =>
           /\ Present(bookingState, "occasion")
           /\ turn.responses[i] = EnrichedDateTimePrompt(Val(bookingState.occasion))
      /\ AsksFor(turn.responses[i], "decoration") =>
           /\ Present(bookingState, "occasion")
           /\ turn.responses[i] = EnrichedDecorationPrompt(Val(bookingState.occasion))
      /\ turn.responses[i] # QUESTIONS["dateTime"]
      /\ turn.responses[i] # QUESTIONS["decoration"]

\* the turn that learns the occasion and asks for the date
C18_Witness ==
  /\ TurnTaken
  /\ ~Present(turn.previousState, "occasion")
  /\ ~Present(bookingState, "dateTime")
  /\ LastResponse = EnrichedDateTimePrompt("Birthday")

\* the branch of the decoration heuristic the message of the turn takes
BranchTaken == DecorationBranch(Normalized, yesNoMatch(Normalized))

\* C19: the last branch of the decoration heuristic, the test for "yes
\* decoration", is unreachable. It is evaluated only for a text that holds
\* neither "decor" nor "decoration", and such a text cannot hold "yes
\* decoration": no message sets the decoration through that branch.
C19_YesDecorationUnreachable ==
  TurnTaken =>
    /\ BranchTaken # "yes decoration"
    /\ (~Includes(Normalized, "decor") /\ ~Includes(Normalized, "decoration")) =>
         ~Includes(Normalized, "yes decoration")
    /\ Unset("decoration") =>
         bookingState.decoration = DecorationBy(BranchTaken, yesNoMatch(Normalized))

\* a message that holds "yes decoration" and sets the decoration through the
\* branch of "decor"
C19_Witness ==
  /\ TurnTaken
  /\ Unset("decoration")
  /\ Includes(Normalized, "yes decoration")
  /\ BranchTaken = "implicit"
  /\ bookingState.decoration = Some("yes")

=============================================================================
